---- MODULE Spec2Model ----
(***************************************************************************)
(* The synthetic credit-profile generator of generate_credit_data.py as a  *)
(* state machine: one table df of num_samples rows, built once and then    *)
(* rewritten column by column by the statements of the script, in order.   *)
(*                                                                         *)
(* Numbers.  The script computes in floating point; the model computes the *)
(* same expressions exactly, in fixed point:                               *)
(*   - money (Income, the debts) in whole dollars;                         *)
(*   - Credit_Score in tenths of a point (580.0 is 5800);                  *)
(*   - ratios (DTI, Credit_Card_Utilization, the uniform fractions of      *)
(*     income) in hundredths (0.75 is 75);                                 *)
(*   - the table multipliers (1.1, 0.6, ...) in tenths;                    *)
(*   - the raw normal draw of Age in tenths of a year (before astype(int)).*)
(* The sampled values are chosen so that every division below is exact.    *)
(*                                                                         *)
(* Randomness.  Every draw of the run is a function of the state of the    *)
(* random source when the script starts.  rng holds the outcomes that      *)
(* state yields, one field per draw site; Init chooses it, the statements  *)
(* read it.                                                                *)
(*                                                                         *)
(* Columns no statement below reads or that no checked property mentions   *)
(* (Customer_ID, Name, Gender, Loan_Balance, Credit_Inquiries_Last_6_Months*)
(* Years_At_Current_Address, Dependents, Years_With_Employer,              *)
(* Housing_Payment) are left out, with the two statements that only write  *)
(* them (lines 130 and 244).                                               *)
(***************************************************************************)
EXTENDS Integers, Sequences, FiniteSets, TLC

VARIABLES
  num_samples,   \* line 45: the number of rows, len(df)
  rng,           \* the outcomes of the random source for this run
  df,            \* line 110: the table, row index -> record of columns
  outliers_idx,  \* line 233: the rows chosen for outlier injection
  pc             \* the next statement of the script

vars == <<num_samples, rng, df, outliers_idx, pc>>

Rows == 1..num_samples

Min(a, b) == IF a <= b THEN a ELSE b

Max(a, b) == IF a >= b THEN a ELSE b

Range(s) == {s[j] : j \in DOMAIN s}

----------------------------------------------------------------------------
(* Lookup tables, lines 56-77 (multipliers in tenths).                     *)

income_adjustment ==
  "Northeast" :> 11 @@ "Midwest" :> 9 @@ "South" :> 8 @@ "West" :> 10

education_income_multiplier ==
  "Less than High School" :> 6 @@ "High School" :> 8 @@
  "Associate's Degree" :> 10 @@ "Bachelor's Degree" :> 12 @@
  "Master's Degree" :> 14 @@ "Doctorate" :> 16

employment_income_multiplier ==
  "Full-Time" :> 10 @@ "Part-Time" :> 6 @@ "Self-Employed" :> 9 @@
  "Unemployed" :> 2 @@ "Retired" :> 7

----------------------------------------------------------------------------
(* Library functions the script uses.                                      *)

\* ndarray.astype(int) on a float (here in tenths): truncation toward zero.
AsTypeInt(x10) == IF x10 >= 0 THEN x10 \div 10 ELSE -((-x10) \div 10)

\* Series.clip(lower, upper): minimum(maximum(x, lower), upper).
Clip(x, lower, upper) == Min(Max(x, lower), upper)

\* np.random.randint(low, high): an integer of [low, high), from the raw
\* outcome r of the random source.
RandInt(low, high, r) == low + (r % (high - low))

\* np.random.choice(list, p=...) of a scalar: the element the source picks.
Choice(list, pick) == list[pick]

\* A missing Bankruptcy_Date and a present one; a date is held as the number
\* of days it lies before datetime.now().
None == [kind |-> "None", days_ago |-> 0]

NaT == [kind |-> "NaT", days_ago |-> 0]

DateTime(d) == [kind |-> "datetime", days_ago |-> d]

----------------------------------------------------------------------------
(* The draws of the run, read off rng.                                     *)

\* The draws of an unremarkable row: a 40-year-old home owner in the West
\* with an Associate's degree, in full-time work, with no bankruptcy.
DefaultDraw ==
  [ Age_normal              |-> 400,
    Region                  |-> "West",
    Education_Level         |-> "Associate's Degree",
    Employment_Status       |-> "Full-Time",
    Bankruptcy_History      |-> "No",
    Delinquency_History     |-> 0,
    Credit_Card_Utilization |-> 30,
    Housing                 |-> "Own",
    income_normal           |-> 100000,
    days_ago                |-> 0,
    band                    |-> 3,
    existing_u              |-> 30,
    card_u                  |-> 10,
    mortgage_u              |-> 200,
    auto_u                  |-> 20,
    payment_pick            |-> 1,
    account_r               |-> 0 ]

\* The rows that are not varied differ in their score band only.
DefaultFor(i) == [DefaultDraw EXCEPT !.band = ((i - 1) % 5) + 1]

\* The draws of row i.
Draw(i) == IF i = 1 THEN rng.first ELSE DefaultFor(i)

\* The random permutation of the index behind line 233: the identity
\* rotated by rng.shift.
Permutation == [j \in Rows |-> ((j - 1 + rng.shift) % num_samples) + 1]

\* The j-th factor drawn at line 234 ([2, 3]) and at line 235 ([1.5, 2], in
\* halves): the first one is free, the later ones alternate.
IncomeChoice(j) == IF j = 1 THEN rng.income_factor ELSE 2 + (j % 2)

DebtChoice(j) == IF j = 1 THEN rng.debt_factor ELSE 3 + (j % 2)

----------------------------------------------------------------------------
(* Lines 80-110: the data dict and the DataFrame built from it.  The       *)
(* sampled columns take the outcome of their draw, the others their        *)
(* placeholder.                                                            *)
DataRow(draw) ==
  [ Age                     |-> AsTypeInt(draw.Age_normal),
    Region                  |-> draw.Region,
    Education_Level         |-> draw.Education_Level,
    Employment_Status       |-> draw.Employment_Status,
    Income                  |-> 0,
    Credit_Score            |-> 0,
    Existing_Debt           |-> 0,
    Credit_Card_Debt        |-> 0,
    Mortgage_Debt           |-> 0,
    Auto_Loan_Debt          |-> 0,
    Bankruptcy_History      |-> draw.Bankruptcy_History,
    Bankruptcy_Date         |-> None,
    Delinquency_History     |-> draw.Delinquency_History,
    Credit_Card_Utilization |-> draw.Credit_Card_Utilization,
    Payment_History         |-> "",
    Account_Age             |-> 0,
    Housing                 |-> draw.Housing ]

\* df[column] = values: the column is added when the table has none of that
\* name and overwritten otherwise.
SetColumn(row, column, value) == (column :> value) @@ row

----------------------------------------------------------------------------
(* The statements of the script, in order.  Each rewrites one or more      *)
(* columns of every row.                                                   *)

\* Lines 113-116: the normal draw scaled by the three multipliers.
adjusted_income(row, normal) ==
  (normal * income_adjustment[row.Region]
          * education_income_multiplier[row.Education_Level]
          * employment_income_multiplier[row.Employment_Status]) \div 1000

AdjustIncome ==
  /\ pc = "income"
  /\ df' = [i \in Rows |->
       SetColumn(df[i], "Income", adjusted_income(df[i], Draw(i).income_normal))]
  /\ pc' = "income_clip"
  /\ UNCHANGED <<num_samples, rng, outliers_idx>>

\* Line 119.
first_income_clip(income) == Clip(income, 20000, 500000)

ClipIncome ==
  /\ pc = "income_clip"
  /\ df' = [i \in Rows |-> SetColumn(df[i], "Income", first_income_clip(df[i].Income))]
  /\ pc' = "bankruptcy_date"
  /\ UNCHANGED <<num_samples, rng, outliers_idx>>

\* Lines 133-139.
generate_bankruptcy_date(bankruptcy_history, r) ==
  IF bankruptcy_history = "Yes"
    THEN DateTime(RandInt(0, 365 * 20, r))
    ELSE None

\* Line 141: the values generate_bankruptcy_date returned become the column.
\* pandas keeps them as objects (a missing date stays None) or infers a
\* datetime64 column from them (a missing date becomes NaT); which of the two
\* depends on the pandas build and on the values, so the run may see either.
as_column_value(date) ==
  IF date.kind = "None" /\ rng.missing_date = "NaT" THEN NaT ELSE date

BankruptcyDate ==
  /\ pc = "bankruptcy_date"
  /\ df' = [i \in Rows |->
       SetColumn(df[i], "Bankruptcy_Date",
         as_column_value(
           generate_bankruptcy_date(df[i].Bankruptcy_History, Draw(i).days_ago)))]
  /\ pc' = "credit_score"
  /\ UNCHANGED <<num_samples, rng, outliers_idx>>

\* Lines 153-157 with a uniform draw made for every row instead of once per
\* band: the rows of a band get different values.
base_credit_score_per_row(i) == Choice(rng.score_uniform, Draw(i).band) + i

\* Lines 153-157: np.random.choice over a list of five numbers.  The list is
\* built once, so each np.random.uniform in it is drawn once for the run;
\* choice then picks, for every row, one of the five elements.
base_credit_score(i) == Choice(rng.score_uniform, Draw(i).band)

SampleCreditScore ==
  /\ pc = "credit_score"
  /\ df' = [i \in Rows |-> SetColumn(df[i], "Credit_Score", base_credit_score(i))]
  /\ pc' = "existing_debt"
  /\ UNCHANGED <<num_samples, rng, outliers_idx>>

\* Lines 160-161: the first-pass debt and the first-pass DTI.
existing_debt(income, u) == (income * u) \div 100

debt_to_income(debt, income) == (debt * 100) \div income

ExistingDebt ==
  /\ pc = "existing_debt"
  /\ df' = [i \in Rows |->
       LET debt == existing_debt(df[i].Income, Draw(i).existing_u)
       IN  SetColumn(SetColumn(df[i], "Existing_Debt", debt),
                     "DTI", debt_to_income(debt, df[i].Income))]
  /\ pc' = "dti_adjust"
  /\ UNCHANGED <<num_samples, rng, outliers_idx>>

\* Line 164: Credit_Score - DTI * 50 (score in tenths, DTI in hundredths).
adjust_credit_score_by_dti(credit_score, dti) == credit_score - dti * 5

AdjustByDTI ==
  /\ pc = "dti_adjust"
  /\ df' = [i \in Rows |->
       SetColumn(df[i], "Credit_Score",
                 adjust_credit_score_by_dti(df[i].Credit_Score, df[i].DTI))]
  /\ pc' = "bankruptcy_adjust"
  /\ UNCHANGED <<num_samples, rng, outliers_idx>>

\* Lines 167-177.  years_since_bankruptcy = days / 365, so years < 7 is
\* days < 7 * 365 and years < 10 is days < 10 * 365.  With NaT the test
\* "is not None" passes, the elapsed days are NaN, both comparisons are
\* false and the else branch is taken.
adjust_credit_score_by_bankruptcy(credit_score, bankruptcy_date) ==
  IF bankruptcy_date.kind # "None"
    THEN IF bankruptcy_date.kind = "NaT"
           THEN credit_score - 50
           ELSE IF bankruptcy_date.days_ago < 7 * 365
                  THEN credit_score - 500
                  ELSE IF /\ 7 * 365 <= bankruptcy_date.days_ago
                          /\ bankruptcy_date.days_ago < 10 * 365
                         THEN credit_score - 200
                         ELSE credit_score - 50
    ELSE credit_score

AdjustByBankruptcy ==
  /\ pc = "bankruptcy_adjust"
  /\ df' = [i \in Rows |->
       SetColumn(df[i], "Credit_Score",
         adjust_credit_score_by_bankruptcy(df[i].Credit_Score, df[i].Bankruptcy_Date))]
  /\ pc' = "card_debt"
  /\ UNCHANGED <<num_samples, rng, outliers_idx>>

\* Line 182.
CardDebt ==
  /\ pc = "card_debt"
  /\ df' = [i \in Rows |->
       SetColumn(df[i], "Credit_Card_Debt", (df[i].Income * Draw(i).card_u) \div 100)]
  /\ pc' = "mortgage_debt"
  /\ UNCHANGED <<num_samples, rng, outliers_idx>>

\* Line 183 without its test of Housing.
mortgage_debt_for_all(row, u) == (row.Income * u) \div 100

\* Line 183.
mortgage_debt(row, u) ==
  IF row.Housing = "Own" THEN (row.Income * u) \div 100 ELSE 0

MortgageDebt ==
  /\ pc = "mortgage_debt"
  /\ df' = [i \in Rows |->
       SetColumn(df[i], "Mortgage_Debt", mortgage_debt(df[i], Draw(i).mortgage_u))]
  /\ pc' = "auto_debt"
  /\ UNCHANGED <<num_samples, rng, outliers_idx>>

\* Line 184.
AutoDebt ==
  /\ pc = "auto_debt"
  /\ df' = [i \in Rows |->
       SetColumn(df[i], "Auto_Loan_Debt", (df[i].Income * Draw(i).auto_u) \div 100)]
  /\ pc' = "total_debt"
  /\ UNCHANGED <<num_samples, rng, outliers_idx>>

\* Line 187 with the mortgage left out of the sum.
total_debt_without_mortgage(row) ==
  row.Existing_Debt + row.Credit_Card_Debt + row.Auto_Loan_Debt

\* Lines 187-188.
total_debt(row) ==
  row.Existing_Debt + row.Credit_Card_Debt + row.Mortgage_Debt + row.Auto_Loan_Debt

TotalDebt ==
  /\ pc = "total_debt"
  /\ df' = [i \in Rows |->
       LET total == total_debt(df[i])
       IN  SetColumn(SetColumn(df[i], "Total_Debt", total),
                     "DTI", debt_to_income(total, df[i].Income))]
  /\ pc' = "payment_history"
  /\ UNCHANGED <<num_samples, rng, outliers_idx>>

\* simulate_payment_history without its bankruptcy branch.
simulate_payment_history_ignoring_bankruptcy(credit_score, delinquency_history, bankruptcy_history, pick) ==
  IF delinquency_history > 3
    THEN "Poor"
    ELSE IF credit_score >= 7500
      THEN Choice(<<"Excellent", "Good">>, pick)
      ELSE IF 6500 <= credit_score /\ credit_score < 7500
        THEN Choice(<<"Good", "Average">>, pick)
        ELSE Choice(<<"Average", "Poor">>, pick)

\* Lines 191-202.
simulate_payment_history(credit_score, delinquency_history, bankruptcy_history, pick) ==
  IF bankruptcy_history = "Yes"
    THEN "Poor"
    ELSE IF delinquency_history > 3
      THEN "Poor"
      ELSE IF credit_score >= 7500
        THEN Choice(<<"Excellent", "Good">>, pick)
        ELSE IF 6500 <= credit_score /\ credit_score < 7500
          THEN Choice(<<"Good", "Average">>, pick)
          ELSE Choice(<<"Average", "Poor">>, pick)

PaymentHistory ==
  /\ pc = "payment_history"
  /\ df' = [i \in Rows |->
       SetColumn(df[i], "Payment_History",
         simulate_payment_history(df[i].Credit_Score, df[i].Delinquency_History,
                                  df[i].Bankruptcy_History, Draw(i).payment_pick))]
  /\ pc' = "account_age"
  /\ UNCHANGED <<num_samples, rng, outliers_idx>>

\* Lines 207-211.
generate_account_age(age, r) ==
  IF age > 18 THEN RandInt(0, Min(age - 18, age), r) ELSE 0

AccountAge ==
  /\ pc = "account_age"
  /\ df' = [i \in Rows |->
       SetColumn(df[i], "Account_Age", generate_account_age(df[i].Age, Draw(i).account_r))]
  /\ pc' = "history_length"
  /\ UNCHANGED <<num_samples, rng, outliers_idx>>

\* Line 216.
credit_history_length(row) == Max(0, row.Age - 18 - row.Account_Age)

HistoryLength ==
  /\ pc = "history_length"
  /\ df' = [i \in Rows |->
       SetColumn(df[i], "Credit_History_Length", credit_history_length(df[i]))]
  /\ pc' = "history_adjust"
  /\ UNCHANGED <<num_samples, rng, outliers_idx>>

\* Line 219: Credit_Score + Credit_History_Length * 0.5.
adjust_credit_score_by_history(credit_score, length) == credit_score + length * 5

AdjustByHistory ==
  /\ pc = "history_adjust"
  /\ df' = [i \in Rows |->
       SetColumn(df[i], "Credit_Score",
         adjust_credit_score_by_history(df[i].Credit_Score, df[i].Credit_History_Length))]
  /\ pc' = "utilization_adjust"
  /\ UNCHANGED <<num_samples, rng, outliers_idx>>

\* Lines 222-228 with >= for both thresholds.
adjust_credit_score_by_utilization_inclusive(credit_score, utilization) ==
  IF utilization >= 75
    THEN credit_score - 250
    ELSE IF utilization >= 50
      THEN credit_score - 100
      ELSE credit_score

\* Lines 222-228.
adjust_credit_score_by_utilization(credit_score, utilization) ==
  IF utilization > 75
    THEN credit_score - 250
    ELSE IF utilization > 50
      THEN credit_score - 100
      ELSE credit_score

AdjustByUtilization ==
  /\ pc = "utilization_adjust"
  /\ df' = [i \in Rows |->
       SetColumn(df[i], "Credit_Score",
         adjust_credit_score_by_utilization(df[i].Credit_Score,
                                            df[i].Credit_Card_Utilization))]
  /\ pc' = "outliers"
  /\ UNCHANGED <<num_samples, rng, outliers_idx>>

\* Line 233 with round(0.01 * len(df)) for the size (Python rounds a half to
\* the even neighbour).
outlier_count_rounded(n) ==
  LET q == n \div 100
      r == n % 100
  IN  IF r < 50 THEN q
      ELSE IF r > 50 THEN q + 1
      ELSE IF q % 2 = 0 THEN q ELSE q + 1

\* Line 233, size=int(0.01 * len(df)): the product truncated toward zero.
\* (In double precision int(0.01 * n) equals n \div 100 for every n up to
\* 1000, which covers the row counts used here.)
outlier_count(n) == n \div 100

\* Line 233: choice(df.index, size, replace=False) is the first size entries
\* of a random permutation of the index.
choose_outliers(permutation, size) == [j \in 1..size |-> permutation[j]]

\* Lines 234-235: the j-th chosen row is scaled by the j-th drawn factor
\* (the debt factors 1.5 and 2 are held as 3 and 4 halves).
scale_outlier(row, income_factor, debt_factor) ==
  SetColumn(SetColumn(row, "Income", row.Income * income_factor),
            "Total_Debt", (row.Total_Debt * debt_factor) \div 2)

InjectOutliers ==
  /\ pc = "outliers"
  /\ outliers_idx' = choose_outliers(Permutation, outlier_count(num_samples))
  /\ df' = [i \in Rows |->
       IF \E j \in DOMAIN outliers_idx' : outliers_idx'[j] = i
         THEN LET j == CHOOSE j \in DOMAIN outliers_idx' : outliers_idx'[j] = i
              IN  scale_outlier(df[i], IncomeChoice(j), DebtChoice(j))
         ELSE df[i]]
  /\ pc' = "final_clip"
  /\ UNCHANGED <<num_samples, rng>>

\* Lines 247-250, in order: the Existing_Debt clip reads the clipped Income.
clip_age(row) == SetColumn(row, "Age", Clip(row.Age, 18, 70))

clip_income(row) == SetColumn(row, "Income", Clip(row.Income, 20000, 400000))

clip_credit_score(row) == SetColumn(row, "Credit_Score", Clip(row.Credit_Score, 3000, 8500))

clip_existing_debt(row) ==
  SetColumn(row, "Existing_Debt", Clip(row.Existing_Debt, 0, row.Income \div 2))

\* Lines 247-250 with the Existing_Debt clip ahead of the Income clip.
FinalClipsDebtFirst ==
  /\ pc = "final_clip"
  /\ df' = [i \in Rows |->
       clip_credit_score(clip_income(clip_existing_debt(clip_age(df[i]))))]
  /\ pc' = "category"
  /\ UNCHANGED <<num_samples, rng, outliers_idx>>

FinalClips ==
  /\ pc = "final_clip"
  /\ df' = [i \in Rows |->
       clip_existing_debt(clip_credit_score(clip_income(clip_age(df[i]))))]
  /\ pc' = "category"
  /\ UNCHANGED <<num_samples, rng, outliers_idx>>

\* Lines 253-255 (bin edges in tenths of a point).
score_bins == <<3000, 5800, 6700, 7400, 8000, 8500>>

score_labels == <<"Very Poor", "Fair", "Good", "Very Good", "Excellent">>

\* pd.cut(x, bins, labels, include_lowest) with the default right=True: bin k
\* is (bins[k], bins[k+1]], the first one also holds bins[1] when
\* include_lowest is set, and a value in no bin gets NaN.
InBin(x, bins, k, include_lowest) ==
  \/ bins[k] < x /\ x <= bins[k + 1]
  \/ include_lowest /\ k = 1 /\ x = bins[1]

Cut(x, bins, labels, include_lowest) ==
  IF \E k \in DOMAIN labels : InBin(x, bins, k, include_lowest)
    THEN labels[CHOOSE k \in DOMAIN labels : InBin(x, bins, k, include_lowest)]
    ELSE "NaN"

Categorize ==
  /\ pc = "category"
  /\ df' = [i \in Rows |->
       SetColumn(df[i], "Credit_Score_Category",
                 Cut(df[i].Credit_Score, score_bins, score_labels, TRUE))]
  /\ pc' = "to_csv"
  /\ UNCHANGED <<num_samples, rng, outliers_idx>>

\* Line 258: the table is written out and not changed again.  (At the
\* resolution of the model float_format='%.2f' prints every number as held.)
ToCsv ==
  /\ pc = "to_csv"
  /\ pc' = "done"
  /\ UNCHANGED <<num_samples, rng, df, outliers_idx>>

Next ==
  \/ AdjustIncome
  \/ ClipIncome
  \/ BankruptcyDate
  \/ SampleCreditScore
  \/ ExistingDebt
  \/ AdjustByDTI
  \/ AdjustByBankruptcy
  \/ CardDebt
  \/ MortgageDebt
  \/ AutoDebt
  \/ TotalDebt
  \/ PaymentHistory
  \/ AccountAge
  \/ HistoryLength
  \/ AdjustByHistory
  \/ AdjustByUtilization
  \/ InjectOutliers
  \/ FinalClips
  \/ Categorize
  \/ ToCsv

----------------------------------------------------------------------------
(* The sampled runs.  A run is fixed by num_samples and by rng; every      *)
(* specification below starts the same script from its own set of runs.    *)

\* The largest row count of the runs that vary one row's credit score.
MaxSamples == 2

\* The largest row count of the runs that vary the outlier injection.
MaxOutlierSamples == 200

\* The five np.random.uniform draws of lines 154-155, in tenths of a point:
\* uniform(300, 579), uniform(580, 669), uniform(670, 739), uniform(740, 799),
\* uniform(800, 850), each in [low, high).
ScoreUniforms ==
  { <<3000, 6000, 7000, 7700, 8490>>,
    <<5789, 5999, 6701, 7400, 8000>> }

\* rng, in short form: the draws of row 1 (those of the other rows are
\* DefaultFor), the five uniform draws, how the column holds a missing date,
\* and the shift and the first factors that fix the draws of lines 233-235.
Tape(first, uniforms, missing, shift, income_factor, debt_factor) ==
  [ first         |-> first,
    score_uniform |-> uniforms,
    missing_date  |-> missing,
    shift         |-> shift,
    income_factor |-> income_factor,
    debt_factor   |-> debt_factor ]

\* The state after line 110.
Constructed ==
  /\ df = [i \in Rows |-> DataRow(Draw(i))]
  /\ outliers_idx = <<>>
  /\ pc = "income"

\* Runs that vary what the credit score of row 1 is built from.
AgeDraws ==
  { <<167, 0>>, <<189, 0>>, <<450, 0>>, <<450, 7>>, <<759, 0>>, <<759, 7>> }

BankruptcyDraws ==
  { <<"No", 0>>, <<"Yes", 100>>, <<"Yes", 2554>>, <<"Yes", 2555>>,
    <<"Yes", 3649>>, <<"Yes", 3650>> }

ScoreDraws ==
  { [DefaultDraw EXCEPT !.Age_normal = a[1], !.account_r = a[2],
                        !.Bankruptcy_History = b[1], !.days_ago = b[2],
                        !.band = k, !.existing_u = u,
                        !.Credit_Card_Utilization = c,
                        !.Delinquency_History = d, !.payment_pick = p] :
      a \in AgeDraws, b \in BankruptcyDraws, k \in 1..5, u \in {10, 40},
      c \in {50, 51, 75, 76}, d \in {3, 4}, p \in {1, 2} }

Init ==
  /\ num_samples \in 1..MaxSamples
  /\ \E r \in ScoreDraws, s \in ScoreUniforms, m \in {"None", "NaT"} :
       /\ (r.Bankruptcy_History = "Yes" \/ r.Delinquency_History > 3) => r.payment_pick = 1
       /\ rng = Tape(r, s, m, 0, 2, 3)
  /\ Constructed

Spec == Init /\ [][Next]_vars

\* Runs over a table large enough for outlier injection to choose rows.
\* They vary what the income and the debts of row 1 are built from, whether
\* row 1 is chosen (shift 0) or not (shift 1), and the first factors drawn
\* (2 and 1.5, or 3 and 2).
TableDraws ==
  { [DefaultDraw EXCEPT !.income_normal = n, !.Region = w[1],
                        !.Education_Level = w[2], !.Employment_Status = w[3],
                        !.existing_u = u, !.Housing = h,
                        !.Age_normal = a[1], !.band = a[2]] :
      n \in {-100000, 100000, 250000, 300000},
      w \in { <<"South", "Less than High School", "Unemployed">>,
              <<"Northeast", "Doctorate", "Full-Time">> },
      u \in {10, 49}, h \in {"Rent", "Own"},
      a \in { <<167, 1>>, <<759, 5>> } }

InitTable ==
  /\ num_samples \in {100, 150, MaxOutlierSamples}
  /\ \E r \in TableDraws, shift \in {0, 1}, f \in { <<2, 3>>, <<3, 4>> } :
       rng = Tape(r, <<3000, 6000, 7000, 7700, 8490>>, "None", shift, f[1], f[2])
  /\ Constructed

SpecTable == InitTable /\ [][Next]_vars

----------------------------------------------------------------------------
(* The properties.                                                         *)

Chosen(i) == i \in Range(outliers_idx)

\* C1: in the table that is written out every row has 300 <= Credit_Score
\* <= 850, 18 <= Age <= 70, 20000 <= Income <= 400000 and 0 <= Existing_Debt
\* <= 0.5 * Income, whatever was drawn.
C1_FinalBounds ==
  pc = "done" =>
    \A i \in Rows :
      /\ 3000 <= df[i].Credit_Score /\ df[i].Credit_Score <= 8500
      /\ 18 <= df[i].Age /\ df[i].Age <= 70
      /\ 20000 <= df[i].Income /\ df[i].Income <= 400000
      /\ 0 <= df[i].Existing_Debt /\ 2 * df[i].Existing_Debt <= df[i].Income

\* A chosen row whose inflated Income and whose Existing_Debt were both cut
\* by the final clips, in the same table as a row above 400000 before them.
C1_Witness ==
  /\ pc = "done"
  /\ \E i \in Rows :
       /\ Chosen(i)
       /\ df[i].Income = 400000
       /\ df[i].Existing_Debt = 200000
       /\ Draw(i).existing_u = 49
       /\ df[i].Age = 70 /\ df[i].Credit_Score = 8500

\* C2: in the final table Credit_History_Length >= 0, and it is at most
\* Age - 18 in every row whose (clipped) Age is above 18.
C2_HistoryWithinFinalAge ==
  pc = "done" =>
    \A i \in Rows :
      /\ df[i].Credit_History_Length >= 0
      /\ df[i].Age > 18 => df[i].Credit_History_Length <= df[i].Age - 18

\* The label of a score under left-closed bands.
LeftClosedLabel(score) ==
  IF 3000 <= score /\ score < 5800 THEN "Very Poor"
  ELSE IF 5800 <= score /\ score < 6700 THEN "Fair"
  ELSE IF 6700 <= score /\ score < 7400 THEN "Good"
  ELSE IF 7400 <= score /\ score < 8000 THEN "Very Good"
  ELSE IF 8000 <= score /\ score <= 8500 THEN "Excellent"
  ELSE "NaN"

\* C3: Credit_Score_Category is the left-closed band of the final score:
\* [300,580) Very Poor, [580,670) Fair, [670,740) Good, [740,800) Very Good,
\* [800,850] Excellent, and never null.
C3_LeftClosedBands ==
  pc \in {"to_csv", "done"} =>
    \A i \in Rows :
      /\ df[i].Credit_Score_Category = LeftClosedLabel(df[i].Credit_Score)
      /\ df[i].Credit_Score_Category \in Range(score_labels)

\* C4: in the final table Payment_History is one of the four labels, and it
\* is "Poor" in every row with a bankruptcy.
C4_PaymentHistory ==
  pc = "done" =>
    \A i \in Rows :
      /\ df[i].Payment_History \in {"Excellent", "Good", "Average", "Poor"}
      /\ df[i].Bankruptcy_History = "Yes" => df[i].Payment_History = "Poor"

\* A bankrupt row whose score and delinquencies alone would have drawn from
\* Excellent and Good.
C4_Witness ==
  /\ pc = "done"
  /\ \E i \in Rows :
       /\ df[i].Bankruptcy_History = "Yes"
       /\ df[i].Delinquency_History <= 3
       /\ df[i].Credit_Score >= 7500
       /\ df[i].Payment_History = "Poor"

\* What the outlier step does to the table when it chooses count rows.
OutlierStep(count) ==
  pc = "outliers" =>
    /\ Len(outliers_idx') = count
    /\ Cardinality(Range(outliers_idx')) = count
    /\ Range(outliers_idx') \subseteq Rows
    /\ \A i \in Rows :
         IF i \in Range(outliers_idx')
           THEN /\ df'[i].Income \in {2 * df[i].Income, 3 * df[i].Income}
                /\ 2 * df'[i].Total_Debt \in {3 * df[i].Total_Debt, 4 * df[i].Total_Debt}
           ELSE /\ df'[i].Income = df[i].Income
                /\ df'[i].Total_Debt = df[i].Total_Debt

\* C5 as stated: outlier injection chooses exactly round(0.01 * N) distinct
\* rows, scales the Income (by 2 or 3) and the Total_Debt (by 1.5 or 2) of
\* exactly these and changes no other row's.
C5_RoundedCount == [][OutlierStep(outlier_count_rounded(num_samples))]_vars

\* C5 as amended: the same with int(0.01 * N), the product truncated, for the
\* number of rows.
C5_TruncatedCount == [][OutlierStep(num_samples \div 100)]_vars

\* Injection has run on a table where truncating and rounding differ, and
\* row 1 was chosen.
C5_Witness ==
  /\ pc = "final_clip"
  /\ num_samples = 150
  /\ Len(outliers_idx) = 1
  /\ Chosen(1)

\* C6: at every stage a row with Housing = "Rent" has Mortgage_Debt = 0, so
\* only rows with Housing = "Own" have a nonzero one.
C6_RentersHaveNoMortgage ==
  \A i \in Rows :
    /\ df[i].Housing = "Rent" => df[i].Mortgage_Debt = 0
    /\ df[i].Mortgage_Debt # 0 => df[i].Housing = "Own"

\* The finished table holds a renter and an owner with a mortgage.
C6_Witness ==
  /\ pc = "done"
  /\ \E i \in Rows : df[i].Housing = "Rent" /\ df[i].Mortgage_Debt = 0
  /\ \E i \in Rows : df[i].Housing = "Own" /\ df[i].Mortgage_Debt > 0

\* The points (in tenths) the bankruptcy step takes off for a stored date.
BankruptcyPenalty(date) ==
  IF date.kind = "None" THEN 0
  ELSE IF date.kind = "NaT" THEN 50
  ELSE IF date.days_ago < 2555 THEN 500
  ELSE IF date.days_ago < 3650 THEN 200
  ELSE 50

\* The points (in tenths) taken off for the utilization.
UtilizationPenalty(utilization) ==
  IF utilization > 75 THEN 250 ELSE IF utilization > 50 THEN 100 ELSE 0

\* b - 50*d - p + 0.5*h - u for row i, unclipped: b the base draw of the
\* row's band, d the fraction of income drawn for the first-pass debt.
UnclippedScore(i) ==
  Choice(rng.score_uniform, Draw(i).band)
    - 5 * Draw(i).existing_u
    - BankruptcyPenalty(df[i].Bankruptcy_Date)
    + 5 * df[i].Credit_History_Length
    - UtilizationPenalty(df[i].Credit_Card_Utilization)

\* C7: the final Credit_Score is clip(b - 50*d - p + 0.5*h - u, 300, 850),
\* with d the first-pass Existing_Debt / Income and a single clip at the end.
C7_ScoreFormula ==
  pc = "done" =>
    \A i \in Rows : df[i].Credit_Score = Clip(UnclippedScore(i), 3000, 8500)

\* A row with every adjustment at work and no clip at the end, whose final
\* DTI is not the first-pass ratio.
C7_Witness ==
  /\ pc = "done"
  /\ \E i \in Rows :
       /\ df[i].Bankruptcy_Date.kind = "datetime"
       /\ df[i].Credit_History_Length > 0
       /\ df[i].Credit_Card_Utilization > 75
       /\ df[i].DTI # Draw(i).existing_u
       /\ 3000 < df[i].Credit_Score /\ df[i].Credit_Score < 8500

\* The penalty the claim gives for a date or for None.
ClaimedBankruptcyPenalty(date) ==
  IF date.kind = "None" THEN 0
  ELSE IF 10 * date.days_ago < 70 * 365 THEN 500
  ELSE IF 10 * date.days_ago <= 100 * 365 THEN 200
  ELSE 50

\* C8: the bankruptcy step takes off exactly 50 for a date less than 7 years
\* (of 365 days) back, 20 for one 7 to 10 years back, both ends included, 5
\* for one more than 10 years back, and nothing from a row with no date.
\* Stated on the table right after the step, when the score is the base draw
\* less the first-pass DTI * 50 less the penalty.
C8_BankruptcyBands ==
  pc = "card_debt" =>
    \A i \in Rows :
      df[i].Bankruptcy_Date.kind # "NaT" =>
        df[i].Credit_Score =
          Choice(rng.score_uniform, Draw(i).band) - 5 * df[i].DTI
            - ClaimedBankruptcyPenalty(df[i].Bankruptcy_Date)

\* DTI is Total_Debt / Income and Total_Debt is the sum of the four debts.
DebtsAddUp(row) ==
  /\ row.DTI * row.Income = 100 * row.Total_Debt
  /\ row.Total_Debt = row.Existing_Debt + row.Credit_Card_Debt
                        + row.Mortgage_Debt + row.Auto_Loan_Debt

C10_FiveBaseScores ==
  pc = "existing_debt" =>
    /\ \A i \in Rows : df[i].Credit_Score \in Range(rng.score_uniform)
    /\ \A i, j \in Rows :
         Draw(i).band = Draw(j).band => df[i].Credit_Score = df[j].Credit_Score
    /\ Cardinality({df[i].Credit_Score : i \in Rows}) <= 5

\* More than five rows, all five bands drawn, two rows in one band.
C10_Witness ==
  /\ pc = "existing_debt"
  /\ num_samples > 5
  /\ Cardinality({df[i].Credit_Score : i \in Rows}) = 5
  /\ \E i, j \in Rows : i # j /\ Draw(i).band = Draw(j).band

====
